---------------------------- MODULE Spec2Model ----------------------------
(***************************************************************************)
(* Model of HashFunctionTester (src/main.cpp, src/main_no_histogram.cpp):  *)
(* dictionary loading, the per-hash-function trial (bucket accumulation,   *)
(* chi-square statistic, p-value, report, histogram) and main().           *)
(*                                                                         *)
(* Representation choices                                                  *)
(*  - A bucket array (vector<int> of 65536 entries) is a record            *)
(*    [fill, at]: `at` maps the indices that were written to their count,  *)
(*    every other index holds `fill`.  testHashFunction builds it with     *)
(*    fill = 0.                                                            *)
(*  - A float that is a multiple of 2^-16 is the pair <<ip, fp>> standing  *)
(*    for ip + fp / 65536, 0 <= fp < 65536.  NaN and +inf are the pairs    *)
(*    NaN and Inf, with a negative first component.                        *)
(*  - A char is its signed value (-128 .. 127), as on the usual targets.   *)
(***************************************************************************)
EXTENDS Integers, Sequences, FiniteSets, TLC

(* ------------------------------ bounds --------------------------------- *)
MaxWords == 2
MaxWordLen == 1
MaxProbeCount == 2
MaxFill == 1
MaxHashLen == 2
MaxPrefix == 258

(* -------------------------- program constants -------------------------- *)
BucketCount == 65536
SegmentCount == 16
SegmentSize == 4096
HISTOGRAM_WIDTH == 70
HISTOGRAM_HEIGHT == 10
RemainderModulus == 65413
DegreesOfFreedom == 65535

(* Characters that occur in the modelled dictionaries: 'a' and one char    *)
(* with the high bit set (negative as a signed char).                      *)
Alphabet == {97, -56}

(* ------------------------------ helpers -------------------------------- *)
Max(a, b) == IF a >= b THEN a ELSE b

Min(a, b) == IF a <= b THEN a ELSE b

SetMax(S) == CHOOSE x \in S : \A y \in S : y <= x

SetMin(S) == CHOOSE x \in S : \A y \in S : x <= y

RECURSIVE SetSum(_, _)
SetSum(f, S) ==
  IF S = {} THEN 0
  ELSE LET x == CHOOSE y \in S : TRUE IN f[x] + SetSum(f, S \ {x})

RECURSIVE GCD(_, _)
GCD(a, b) == IF b = 0 THEN a ELSE GCD(b, a % b)

RECURSIVE Log2(_)
Log2(x) == IF x <= 1 THEN 0 ELSE 1 + Log2(x \div 2)

RECURSIVE Pow2(_)
Pow2(k) == IF k = 0 THEN 1 ELSE 2 * Pow2(k - 1)

RECURSIVE SeqsUpTo(_, _)
SeqsUpTo(S, n) ==
  IF n = 0 THEN {<<>>}
  ELSE LET shorter == SeqsUpTo(S, n - 1)
       IN shorter \cup {Append(s, x) : s \in {t \in shorter : Len(t) = n - 1}, x \in S}

(* A line of the dictionary file: getline yields any string, also empty.   *)
Words == SeqsUpTo(Alphabet, MaxWordLen)

WordLists == SeqsUpTo(Words, MaxWords)

(* ---------------------------- hash functions --------------------------- *)
ToUint16(x) == x % 65536

sanitizeChar(c) == ToUint16(c % 256)

StringLengthHash(word) == Len(word) % 65536

FirstCharacterHash(word) ==
  IF Len(word) = 0 THEN 0 ELSE sanitizeChar(word[1]) % 65536

RECURSIVE AdditiveFrom(_, _, _)
AdditiveFrom(h, word, k) ==
  IF k > Len(word) THEN h
  ELSE AdditiveFrom(ToUint16((h + sanitizeChar(word[k])) % 65536), word, k + 1)

AdditiveChecksumHash(word) == AdditiveFrom(0, word, 1)

(* h = h * 31 + sanitizeChar(c), the reduction modulo m left out.          *)
RECURSIVE RemainderFromNoModulus(_, _, _)
RemainderFromNoModulus(h, word, k) ==
  IF k > Len(word) THEN h
  ELSE RemainderFromNoModulus(ToUint16(h * 31 + sanitizeChar(word[k])), word, k + 1)

RECURSIVE RemainderFrom(_, _, _)
RemainderFrom(h, word, k) ==
  IF k > Len(word) THEN h
  ELSE RemainderFrom(ToUint16((h * 31 + sanitizeChar(word[k])) % RemainderModulus),
                     word, k + 1)

RemainderHash(word) == RemainderFrom(0, word, 1)

(* The running value h of the multiplicative hash is a double in [0, 1),   *)
(* kept here in units of 1/MultScale; the multiplier 0.6180339887 is       *)
(* MultGolden/MultScale.  fmod(x, 1.0) keeps the fractional part, and a    *)
(* char code is integral, so it contributes nothing to the fraction.       *)
MultScale == 10000

MultGolden == 6180

RECURSIVE MultiplicativeFrom(_, _, _)
MultiplicativeFrom(h, word, k) ==
  IF k > Len(word) THEN h
  ELSE MultiplicativeFrom(
         ((h * MultGolden) \div MultScale + sanitizeChar(word[k]) * MultScale) % MultScale,
         word, k + 1)

MultiplicativeHash(word) ==
  ToUint16((MultiplicativeFrom(0, word, 1) * 65536) \div MultScale)

(* std::hash<string> is implementation-defined: a deterministic function   *)
(* of the string's bytes.  Two candidate implementations are modelled; a   *)
(* run uses one of them throughout (variable stdImpl).                     *)
StdImpls == {1, 2}

RECURSIVE StdHashFrom(_, _, _, _)
StdHashFrom(impl, h, word, k) ==
  IF k > Len(word) THEN h
  ELSE StdHashFrom(impl,
         IF impl = 1 THEN (h * 33 + sanitizeChar(word[k])) % 65536
                     ELSE ((h + sanitizeChar(word[k])) * 4099 + 7) % 65536,
         word, k + 1)

StandardLibraryHash(impl, word) ==
  StdHashFrom(impl, IF impl = 1 THEN 5381 ELSE 40503, word, 1) % 65536

HashNames == <<"String Length", "First Character", "Additive Checksum",
               "Remainder", "Multiplicative", "Standard Library">>

HashIds == 1..6

(* The value testHashFunction stores in `uint16_t h` for hash function id. *)
HashFunc(id, impl, word) ==
  ToUint16(CASE id = 1 -> StringLengthHash(word)
             [] id = 2 -> FirstCharacterHash(word)
             [] id = 3 -> AdditiveChecksumHash(word)
             [] id = 4 -> RemainderHash(word)
             [] id = 5 -> MultiplicativeHash(word)
             [] id = 6 -> StandardLibraryHash(impl, word))

(* ----------------------------- bucket array ---------------------------- *)
ZeroHashes == [fill |-> 0, at |-> <<>>]

Get(hashes, i) == IF i \in DOMAIN hashes.at THEN hashes.at[i] ELSE hashes.fill

(* hashes[h] = 1 in place of hashes[h]++.                                  *)
IncrementSetsOne(hashes, h) ==
  [hashes EXCEPT !.at = [j \in (DOMAIN hashes.at) \cup {h} |->
                           IF j = h THEN 1 ELSE Get(hashes, j)]]

Increment(hashes, h) ==
  [hashes EXCEPT !.at = [j \in (DOMAIN hashes.at) \cup {h} |->
                           IF j = h THEN Get(hashes, j) + 1 ELSE Get(hashes, j)]]

SumOfCounts(hashes) ==
  hashes.fill * (BucketCount - Cardinality(DOMAIN hashes.at))
    + SetSum(hashes.at, DOMAIN hashes.at)

(* Counts held by the buckets with index in lo .. hi-1.                    *)
CountsIn(hashes, lo, hi) ==
  LET touched == {j \in DOMAIN hashes.at : lo <= j /\ j < hi}
  IN {hashes.at[j] : j \in touched}
       \cup (IF Cardinality(touched) < hi - lo THEN {hashes.fill} ELSE {})


(* --------------------------- float arithmetic -------------------------- *)
NaN == <<-1, -1>>

Inf == <<-2, -2>>

(* A local that has not been assigned yet.                                 *)
NoFloat == <<-3, -3>>

NoValue == -1

(* The exact value of pow(count - expected, 2) / expected for              *)
(* expected = totalWords / 65536, i.e. count^2/expected - 2 count +        *)
(* expected, as the record [ip, fp, r, d] standing for                     *)
(* ip + (fp + r/d) / 65536.  The code forms count - expected in float and  *)
(* the square and the quotient in double; for totalWords below 2^15 or a   *)
(* multiple of 65536, and counts of a few units, the difference and the    *)
(* square are exact and the rounding of the quotient to 53 bits is far     *)
(* below the float rounding applied by the accumulation.                   *)
Term(count, totalWords) ==
  LET g   == GCD(totalWords, BucketCount)
      nn  == totalWords \div g
      dd  == BucketCount \div g
      X   == count * (count * dd - 2 * nn)
      q   == X \div nn
      rho == X % nn
      fp0 == (BucketCount * rho) \div nn + totalWords
  IN [ip |-> q + fp0 \div BucketCount,
      fp |-> fp0 % BucketCount,
      r  |-> (BucketCount * rho) % nn,
      d  |-> nn]

(* chiSquare += term: the sum is formed in double and stored to the float  *)
(* chiSquare, i.e. rounded to 24 significant bits, ties to even.  ulp is   *)
(* the float spacing at the sum in units of 2^-16 (sums below 2^7 that are *)
(* multiples of 2^-16 are stored exactly; sums stay below 2^23).           *)
FloatAdd(acc, t) ==
  LET f0   == acc[2] + t.fp
      si   == acc[1] + t.ip + f0 \div BucketCount
      sf   == f0 % BucketCount
      E    == Log2(si)
      ulp  == Pow2(Max(E - 7, 0))
      low  == sf % ulp
      twice == 2 * (t.d * low + t.r)
      odd  == ((sf \div ulp) % 2) = 1
      up   == twice > t.d * ulp \/ (twice = t.d * ulp /\ odd)
      f1   == sf - low + (IF up THEN ulp ELSE 0)
  IN <<si + f1 \div BucketCount, f1 % BucketCount>>

(* m consecutive additions of the same term (a run of buckets holding the  *)
(* same count).  Two shortcuts: an addition that leaves chiSquare          *)
(* unchanged leaves it unchanged m times; and while every partial sum is a *)
(* multiple of 2^-16 below 2^7 no addition rounds.                         *)
RECURSIVE RunAdd(_, _, _)
RunAdd(acc, t, m) ==
  IF m = 0 THEN acc
  ELSE LET nx == FloatAdd(acc, t)
       IN IF nx = acc THEN acc
          ELSE IF t.r = 0 /\ t.ip = 0 /\ t.fp < 128 /\ acc[1] < 128
                  /\ acc[2] + m * t.fp < (128 - acc[1]) * BucketCount
               THEN <<acc[1] + (acc[2] + m * t.fp) \div BucketCount,
                      (acc[2] + m * t.fp) % BucketCount>>
               ELSE RunAdd(nx, t, m - 1)

(* The loop `for (int count : hashes)` from bucket pos on.                 *)
RECURSIVE ChiSquareFrom(_, _, _, _)
ChiSquareFrom(acc, pos, hashes, totalWords) ==
  LET rest == {j \in DOMAIN hashes.at : j >= pos}
  IN IF rest = {}
     THEN RunAdd(acc, Term(hashes.fill, totalWords), BucketCount - pos)
     ELSE LET j == SetMin(rest)
              a1 == RunAdd(acc, Term(hashes.fill, totalWords), j - pos)
          IN ChiSquareFrom(FloatAdd(a1, Term(hashes.at[j], totalWords)),
                           j + 1, hashes, totalWords)

(* expected = totalWords / 65536 in integer arithmetic.                    *)
computeChiSquareIntegerExpected(hashes, totalWords) ==
  IF totalWords \div BucketCount = 0
  THEN IF 0 \in CountsIn(hashes, 0, BucketCount) THEN NaN ELSE Inf
  ELSE ChiSquareFrom(<<0, 0>>, 0, hashes, (totalWords \div BucketCount) * BucketCount)

(* computeChiSquare, with totalWords = words.size().  With totalWords = 0  *)
(* expected is 0: a bucket holding 0 contributes 0/0 (NaN), any other      *)
(* bucket x/0 (+inf), and NaN absorbs everything.                          *)
computeChiSquare(hashes, totalWords) ==
  IF totalWords = 0
  THEN IF 0 \in CountsIn(hashes, 0, BucketCount) THEN NaN ELSE Inf
  ELSE ChiSquareFrom(<<0, 0>>, 0, hashes, totalWords)

IsNumber(x) == x[1] >= 0


(* ------------------------------- p-value ------------------------------- *)
(* boost::math::cdf of the chi-squared distribution with 65535 degrees of  *)
(* freedom, in thousandths, rounded down onto the levels of the table:     *)
(* <<x, p>> says cdf(x) >= p/1000, x being the least integer with that     *)
(* property (p = 1000: the least integer whose cdf is 1 as a float).       *)
CdfTable ==
  << <<64422, 1>>, <<64696, 10>>, <<64941, 50>>, <<65072, 100>>,
     <<65291, 250>>, <<65535, 500>>, <<65779, 750>>, <<66000, 900>>,
     <<66132, 950>>, <<66381, 990>>, <<66660, 999>>, <<67517, 1000>> >>

ChiSquaredCdf(x) ==
  SetMax({0} \cup {CdfTable[k][2] : k \in {j \in DOMAIN CdfTable : CdfTable[j][1] <= x[1]}})

computePValue(chiSquare) == ChiSquaredCdf(chiSquare)

(* ------------------------------ histogram ------------------------------ *)
(* What the build makes of converting round(NaN) to int (undefined):       *)
(* INT_MIN (x86), 0 (saturating targets), or INT_MAX.                      *)
NaNToInt == {-2147483647 - 1, 0, 2147483647}

maxCount(hashes) == SetMax(CountsIn(hashes, 0, BucketCount))

minCount(hashes) == SetMin(CountsIn(hashes, 0, BucketCount))

(* segmentMaxCounts[i] of the code is segmentMaxCounts(hashes)[i + 1].     *)
segmentMaxCounts(hashes) ==
  [i \in 1..SegmentCount |->
     SetMax(CountsIn(hashes, (i - 1) * SegmentSize,
                     Min(i * SegmentSize, BucketCount)))]

(* The normalization without the shift by minCount.                        *)
NormalizeUnshifted(segmentMax, lo, hi, nanInt) ==
  IF hi = lo THEN nanInt
  ELSE (2 * (HISTOGRAM_HEIGHT - 1) * segmentMax + (hi - lo)) \div (2 * (hi - lo))

(* round(((segmentMax - minCount) / double(maxCount - minCount)) * (H-1)): *)
(* round() rounds halves away from zero; with a zero range the quotient is *)
(* 0/0 = NaN and the conversion of the result to int is undefined.         *)
Normalize(segmentMax, lo, hi, nanInt) ==
  IF hi = lo THEN nanInt
  ELSE (2 * (HISTOGRAM_HEIGHT - 1) * (segmentMax - lo) + (hi - lo)) \div (2 * (hi - lo))

normalizedSegmentsOf(hashes, nanInt) ==
  [i \in 1..SegmentCount |->
     Normalize(segmentMaxCounts(hashes)[i], minCount(hashes), maxCount(hashes), nanInt)]

(* The rows printed top (row H-1) to bottom (row 0): TRUE where '#'.       *)
HistogramRows(segments) ==
  [k \in 1..HISTOGRAM_HEIGHT |->
     [col \in 1..SegmentCount |-> segments[col] >= HISTOGRAM_HEIGHT - k]]

(* -------------------------------- state -------------------------------- *)
VARIABLES
  histogramEnabled,   \* TRUE: main.cpp, FALSE: main_no_histogram.cpp
  fileOK,             \* ./words.txt can be opened
  stdImpl,            \* the std::hash implementation of the build
  registry,           \* the testHashFunction calls to make, in order
  words,              \* HashFunctionTester::words
  pc,                 \* position of the single thread
  trial,              \* index into registry of the current trial
  wi,                 \* position of the loop over words (1-based)
  hashes,             \* local of testHashFunction
  totalWords,         \* local of computeChiSquare
  chiSquare,          \* local of testHashFunction
  pValue,             \* local of testHashFunction
  normalizedSegments, \* local of printHistogram
  out,                \* what was written to cout
  err,                \* what was written to cerr
  exitCode,           \* return value of main
  steps,              \* history of the steps completed, in order
  hashRun             \* a call hashFunc(word): position and running value

vars == <<histogramEnabled, fileOK, stdImpl, registry, words, pc, trial, wi,
          hashes, totalWords, chiSquare, pValue, normalizedSegments, out, err,
          exitCode, steps, hashRun>>

(* The calls of runAllTests with the first two exchanged.                  *)
ProgramRegistrySwapped ==
  [k \in 1..6 |-> [name |-> HashNames[IF k = 1 THEN 2 ELSE IF k = 2 THEN 1 ELSE k],
                    id |-> IF k = 1 THEN 2 ELSE IF k = 2 THEN 1 ELSE k]]

(* The calls of runAllTests, in source order.                              *)
ProgramRegistry == [k \in 1..6 |-> [name |-> HashNames[k], id |-> k]]

(* No call of a hash function is being followed character by character.    *)
NoHashRun == [id |-> 0, impl |-> 1, word |-> <<>>, k |-> 1, h |-> 0, result |-> NoValue]

InitLocals ==
  /\ hashRun = NoHashRun
  /\ words = <<>>
  /\ pc = "start"
  /\ trial = 1
  /\ wi = 1
  /\ hashes = ZeroHashes
  /\ totalWords = NoValue
  /\ chiSquare = NoFloat
  /\ pValue = NoValue
  /\ normalizedSegments = <<>>
  /\ out = <<>>
  /\ err = <<>>
  /\ exitCode = NoValue
  /\ steps = <<>>

Init ==
  /\ histogramEnabled \in BOOLEAN
  /\ fileOK \in BOOLEAN
  /\ stdImpl \in StdImpls
  /\ registry = ProgramRegistry
  /\ InitLocals

(* A completed step of the current trial and what it produced.             *)
Step(name, data) ==
  [step |-> name, trial |-> trial, name |-> registry[trial].name, data |-> data]


(* ------------------------------- actions ------------------------------- *)
(* The handler of main returning 0.                                        *)
LoadDictionaryFailsReturnsZero ==
  /\ pc = "start"
  /\ ~fileOK
  /\ err' = Append(err, "Error: Could not open dictionary file")
  /\ exitCode' = 0
  /\ pc' = "exit"
  /\ UNCHANGED <<hashRun, histogramEnabled, fileOK, stdImpl, registry, words, trial, wi,
                 hashes, totalWords, chiSquare, pValue, normalizedSegments,
                 out, steps>>

(* main: the constructor's loadDictionary throws, the handler reports it   *)
(* on cerr and main returns 1.                                             *)
LoadDictionaryFails ==
  /\ pc = "start"
  /\ ~fileOK
  /\ err' = Append(err, "Error: Could not open dictionary file")
  /\ exitCode' = 1
  /\ pc' = "exit"
  /\ UNCHANGED <<hashRun, histogramEnabled, fileOK, stdImpl, registry, words, trial, wi,
                 hashes, totalWords, chiSquare, pValue, normalizedSegments,
                 out, steps>>

(* loadDictionary: every line of the file becomes a word.                  *)
LoadDictionary ==
  /\ pc = "start"
  /\ fileOK
  /\ \E ws \in WordLists : words' = ws
  /\ pc' = "run"
  /\ UNCHANGED <<hashRun, histogramEnabled, fileOK, stdImpl, registry, trial, wi,
                 hashes, totalWords, chiSquare, pValue, normalizedSegments,
                 out, err, exitCode, steps>>

(* A bucket array that outlives the trial (a member, or a static local).   *)
BeginTrialKeepsHashes ==
  /\ pc = "run"
  /\ trial <= Len(registry)
  /\ wi' = 1
  /\ pc' = "accumulate"
  /\ UNCHANGED <<hashRun, histogramEnabled, fileOK, stdImpl, registry, words, trial,
                 hashes, totalWords, chiSquare, pValue, normalizedSegments, out,
                 err, exitCode, steps>>

(* runAllTests calls testHashFunction, which creates its bucket array.     *)
BeginTrial ==
  /\ pc = "run"
  /\ trial <= Len(registry)
  /\ hashes' = ZeroHashes
  /\ wi' = 1
  /\ pc' = "accumulate"
  /\ UNCHANGED <<hashRun, histogramEnabled, fileOK, stdImpl, registry, words, trial,
                 totalWords, chiSquare, pValue, normalizedSegments, out, err,
                 exitCode, steps>>

(* One iteration of the loop over words: h = hashFunc(word); hashes[h]++.  *)
AccumulateWord ==
  /\ pc = "accumulate"
  /\ wi <= Len(words)
  /\ hashes' = Increment(hashes, HashFunc(registry[trial].id, stdImpl, words[wi]))
  /\ wi' = wi + 1
  /\ UNCHANGED <<hashRun, histogramEnabled, fileOK, stdImpl, registry, words, pc, trial,
                 totalWords, chiSquare, pValue, normalizedSegments, out, err,
                 exitCode, steps>>

(* The loop over words ends.                                               *)
AccumulateDone ==
  /\ pc = "accumulate"
  /\ wi > Len(words)
  /\ pc' = "chi"
  /\ steps' = Append(steps, Step("accumulate", hashes))
  /\ UNCHANGED <<hashRun, histogramEnabled, fileOK, stdImpl, registry, words, trial, wi,
                 hashes, totalWords, chiSquare, pValue, normalizedSegments,
                 out, err, exitCode>>

ComputeChiSquare ==
  /\ pc = "chi"
  /\ totalWords' = Len(words)
  /\ chiSquare' = computeChiSquare(hashes, Len(words))
  /\ pc' = "pvalue"
  /\ steps' = Append(steps, Step("chi-square", chiSquare'))
  /\ UNCHANGED <<hashRun, histogramEnabled, fileOK, stdImpl, registry, words, trial, wi,
                 hashes, pValue, normalizedSegments, out, err, exitCode>>

ComputePValue ==
  /\ pc = "pvalue"
  /\ IsNumber(chiSquare)
  /\ pValue' = computePValue(chiSquare)
  /\ pc' = "report"
  /\ steps' = Append(steps, Step("p-value", pValue'))
  /\ UNCHANGED <<hashRun, histogramEnabled, fileOK, stdImpl, registry, words, trial, wi,
                 hashes, totalWords, chiSquare, normalizedSegments, out, err,
                 exitCode>>

(* boost's cdf raises a domain error (std::domain_error under the default  *)
(* policy) for a statistic that is not finite; main's handler catches it.  *)
ComputePValueThrows ==
  /\ pc = "pvalue"
  /\ ~IsNumber(chiSquare)
  /\ err' = Append(err, "Error: Chi Square parameter is not finite")
  /\ exitCode' = 1
  /\ pc' = "exit"
  /\ UNCHANGED <<hashRun, histogramEnabled, fileOK, stdImpl, registry, words, trial, wi,
                 hashes, totalWords, chiSquare, pValue, normalizedSegments,
                 out, steps>>

(* The divider, the name, the half divider, the statistic and the p-value. *)
(* Without the histogram this ends the trial.                              *)
PrintReport ==
  /\ pc = "report"
  /\ out' = Append(out, [kind |-> "report", name |-> registry[trial].name,
                         chiSquare |-> chiSquare, pValue |-> pValue])
  /\ steps' = Append(steps, Step("report", <<chiSquare, pValue>>))
  /\ pc' = IF histogramEnabled THEN "histogram" ELSE "run"
  /\ trial' = IF histogramEnabled THEN trial ELSE trial + 1
  /\ UNCHANGED <<hashRun, histogramEnabled, fileOK, stdImpl, registry, words, wi, hashes,
                 totalWords, chiSquare, pValue, normalizedSegments, err,
                 exitCode>>

PrintHistogram ==
  /\ pc = "histogram"
  /\ \E nanInt \in (IF maxCount(hashes) = minCount(hashes) THEN NaNToInt ELSE {0}) :
       normalizedSegments' = normalizedSegmentsOf(hashes, nanInt)
  /\ out' = Append(out, [kind |-> "histogram",
                         rows |-> HistogramRows(normalizedSegments')])
  /\ steps' = Append(steps, Step("histogram", normalizedSegments'))
  /\ pc' = "run"
  /\ trial' = trial + 1
  /\ UNCHANGED <<hashRun, histogramEnabled, fileOK, stdImpl, registry, words, wi, hashes,
                 totalWords, chiSquare, pValue, err, exitCode>>

(* runAllTests returns and main returns 0.                                 *)
Finish ==
  /\ pc = "run"
  /\ trial > Len(registry)
  /\ exitCode' = 0
  /\ pc' = "exit"
  /\ UNCHANGED <<hashRun, histogramEnabled, fileOK, stdImpl, registry, words, trial, wi,
                 hashes, totalWords, chiSquare, pValue, normalizedSegments,
                 out, err, steps>>

Next ==
  \/ LoadDictionaryFails
  \/ LoadDictionary
  \/ BeginTrial
  \/ AccumulateWord
  \/ AccumulateDone
  \/ ComputeChiSquare
  \/ ComputePValue
  \/ ComputePValueThrows
  \/ PrintReport
  \/ PrintHistogram
  \/ Finish

Spec == Init /\ [][Next]_vars


(* ------------------- testHashFunction called by hand ------------------- *)
(* testHashFunction is public: a caller may run any sequence of trials.    *)
(* Here the same hash function is run twice under two names, with a trial  *)
(* of another hash function between the two.                               *)
Between(f) == {(f % 6) + 1, ((f + 2) % 6) + 1}

HarnessRegistries ==
  UNION {{<<[name |-> "first", id |-> f], [name |-> "between", id |-> g],
            [name |-> "second", id |-> f]>> : g \in Between(f)} : f \in HashIds}

InitHarness ==
  /\ histogramEnabled = TRUE
  /\ fileOK \in BOOLEAN
  /\ stdImpl \in StdImpls
  /\ registry \in HarnessRegistries
  /\ InitLocals

SpecHarness == InitHarness /\ [][Next]_vars

(* ------------- computeChiSquare and printHistogram by hand ------------- *)
(* The two functions applied to bucket arrays an accumulation can leave    *)
(* behind: every bucket holds `fill` but for a few probe buckets, and the  *)
(* word list has as many words as the counts add up to.                    *)
ProbeIndexes == {0, 4095, 4096, 65535}

PureArrays ==
  {[fill |-> f, at |-> a] :
     f \in 0..MaxFill,
     a \in UNION {[S -> 0..MaxProbeCount] : S \in SUBSET ProbeIndexes}}

(* The word counts for which Term is exact (see there).                    *)
ChiDomain(n) == n < 32768 \/ n % BucketCount = 0

InitPure ==
  /\ histogramEnabled = TRUE
  /\ fileOK = TRUE
  /\ stdImpl = 1
  /\ registry = ProgramRegistry
  /\ hashRun = NoHashRun
  /\ words = <<>>
  /\ pc = "pure"
  /\ trial = 1
  /\ wi = 1
  /\ hashes \in {h \in PureArrays : \A j \in DOMAIN h.at : h.at[j] # h.fill}
  /\ totalWords = SumOfCounts(hashes)
  /\ chiSquare = NoFloat
  /\ pValue = NoValue
  /\ normalizedSegments = <<>>
  /\ out = <<>>
  /\ err = <<>>
  /\ exitCode = NoValue
  /\ steps = <<>>

PureChiSquare ==
  /\ pc = "pure"
  /\ chiSquare = NoFloat
  /\ ChiDomain(totalWords)
  /\ chiSquare' = computeChiSquare(hashes, totalWords)
  /\ UNCHANGED <<hashRun, histogramEnabled, fileOK, stdImpl, registry, words, pc, trial,
                 wi, hashes, totalWords, pValue, normalizedSegments, out, err,
                 exitCode, steps>>

PureHistogram ==
  /\ pc = "pure"
  /\ normalizedSegments = <<>>
  /\ \E nanInt \in (IF maxCount(hashes) = minCount(hashes) THEN NaNToInt ELSE {0}) :
       normalizedSegments' = normalizedSegmentsOf(hashes, nanInt)
  /\ UNCHANGED <<hashRun, histogramEnabled, fileOK, stdImpl, registry, words, pc, trial,
                 wi, hashes, totalWords, chiSquare, pValue, out, err, exitCode,
                 steps>>

NextPure == PureChiSquare \/ PureHistogram

SpecPure == InitPure /\ [][NextPure]_vars

(* --------------- one call hashFunc(word), step by step ------------------ *)
(* The six lambdas of runAllTests, each followed through its loop one      *)
(* character at a time, and the use testHashFunction makes of the value    *)
(* returned.  Words are long enough for the 16-bit running values to wrap: *)
(* an optional run of MaxPrefix equal characters, then up to MaxHashLen    *)
(* characters.                                                             *)
HashAlphabet == Alphabet \cup {-1}

Repeat(c, n) == [i \in 1..n |-> c]

HashWords ==
  {prefix \o suffix :
     prefix \in {<<>>} \cup {Repeat(c, MaxPrefix) : c \in HashAlphabet},
     suffix \in SeqsUpTo(HashAlphabet, MaxHashLen)}

(* The value of the lambda's local h before the loop.                      *)
HashStart(id, impl) ==
  IF id = 6 THEN (IF impl = 1 THEN 5381 ELSE 40503) ELSE 0

(* The value the lambda returns when its local stands at h, converted to   *)
(* the uint16_t it is stored in.                                           *)
HashResult(id, h, word) ==
  ToUint16(CASE id = 1 -> StringLengthHash(word)
             [] id = 2 -> FirstCharacterHash(word)
             [] id = 3 -> h
             [] id = 4 -> h
             [] id = 5 -> (h * 65536) \div MultScale
             [] id = 6 -> h % 65536)

InitHash ==
  /\ histogramEnabled = TRUE
  /\ fileOK = TRUE
  /\ stdImpl = 1
  /\ registry = ProgramRegistry
  /\ \E id \in HashIds, impl \in StdImpls, word \in HashWords :
       /\ id # 6 => impl = 1
       /\ hashRun = [id |-> id, impl |-> impl, word |-> word, k |-> 1,
                     h |-> HashStart(id, impl), result |-> NoValue]
  /\ words = <<>>
  /\ pc = "hash"
  /\ trial = 1
  /\ wi = 1
  /\ hashes = ZeroHashes
  /\ totalWords = NoValue
  /\ chiSquare = NoFloat
  /\ pValue = NoValue
  /\ normalizedSegments = <<>>
  /\ out = <<>>
  /\ err = <<>>
  /\ exitCode = NoValue
  /\ steps = <<>>

(* One iteration of `for (char c : word)` in a lambda that has a loop.     *)
HashChar ==
  /\ pc = "hash"
  /\ hashRun.result = NoValue
  /\ hashRun.id \in 3..6
  /\ hashRun.k <= Len(hashRun.word)
  /\ LET c == <<hashRun.word[hashRun.k]>>
         h == hashRun.h
     IN hashRun' = [hashRun EXCEPT
          !.k = @ + 1,
          !.h = CASE hashRun.id = 3 -> AdditiveFrom(h, c, 1)
                  [] hashRun.id = 4 -> RemainderFrom(h, c, 1)
                  [] hashRun.id = 5 -> MultiplicativeFrom(h, c, 1)
                  [] hashRun.id = 6 -> StdHashFrom(hashRun.impl, h, c, 1)]
  /\ UNCHANGED <<histogramEnabled, fileOK, stdImpl, registry, words, pc, trial, wi,
                 hashes, totalWords, chiSquare, pValue, normalizedSegments, out,
                 err, exitCode, steps>>

(* The lambda returns; testHashFunction stores the value in `uint16_t h`   *)
(* and increments hashes[h].                                               *)
HashReturn ==
  /\ pc = "hash"
  /\ hashRun.result = NoValue
  /\ hashRun.id \in 3..6 => hashRun.k > Len(hashRun.word)
  /\ LET r == HashResult(hashRun.id, hashRun.h, hashRun.word)
     IN /\ hashRun' = [hashRun EXCEPT !.result = r]
        /\ hashes' = Increment(hashes, r)
  /\ UNCHANGED <<histogramEnabled, fileOK, stdImpl, registry, words, pc, trial, wi,
                 totalWords, chiSquare, pValue, normalizedSegments, out, err,
                 exitCode, steps>>

NextHash == HashChar \/ HashReturn

SpecHash == InitHash /\ [][NextHash]_vars


(* ------------------------------ properties ----------------------------- *)
Computed == chiSquare # NoFloat

Rendered == normalizedSegments # <<>>

SegmentCounts(i) ==
  CountsIn(hashes, (i - 1) * SegmentSize, Min(i * SegmentSize, BucketCount))

HeightsInRange ==
  \A i \in 1..SegmentCount : normalizedSegments[i] \in 0..(HISTOGRAM_HEIGHT - 1)

(* C1: while testHashFunction accumulates, the bucket counts add up to the *)
(* number of words processed so far, and once the loop has finished (and   *)
(* for the rest of the trial) to the length of the word list.              *)
C1_Conservation ==
  /\ pc = "accumulate" => SumOfCounts(hashes) = wi - 1
  /\ pc \in {"chi", "pvalue", "report", "histogram"}
       => SumOfCounts(hashes) = Len(words)

C1_Witness ==
  /\ pc = "chi"
  /\ Len(words) >= 2
  /\ \E j \in DOMAIN hashes.at : hashes.at[j] >= 2

(* C2: when the dictionary cannot be opened nothing is ever reported and   *)
(* the process ends with an error message on cerr and exit code 1; when it *)
(* can be opened and runAllTests has run every trial the exit code is 0.   *)
C2_ExitCodes ==
  /\ ~fileOK => out = <<>> /\ steps = <<>>
  /\ pc = "exit" /\ ~fileOK => exitCode = 1 /\ err # <<>>
  /\ pc = "exit" /\ fileOK /\ trial > Len(registry) => exitCode = 0 /\ err = <<>>

C2_Witness == pc = "exit" /\ ~fileOK /\ exitCode = 1 /\ Len(err) = 1

(* C3: the chi-square computation is never carried out for an empty word   *)
(* list (expected count 0).                                                *)
C3_EmptyRejected == Computed => totalWords > 0

(* C4: for a bucket array whose counts are all equal the renderer yields   *)
(* 16 heights that are defined integers in 0 .. H-1.                       *)
C4_FlatGuarded ==
  (Rendered /\ maxCount(hashes) = minCount(hashes)) => HeightsInRange

(* C5 as stated: with globalMax > globalMin every height is in 0 .. H-1, a *)
(* segment containing a bucket that holds the global maximum has height    *)
(* H-1 and a segment containing a bucket that holds the global minimum has *)
(* height 0.                                                               *)
C5_Original ==
  (Rendered /\ maxCount(hashes) > minCount(hashes)) =>
    /\ HeightsInRange
    /\ \A i \in 1..SegmentCount :
         /\ maxCount(hashes) \in SegmentCounts(i)
              => normalizedSegments[i] = HISTOGRAM_HEIGHT - 1
         /\ minCount(hashes) \in SegmentCounts(i) => normalizedSegments[i] = 0

(* C5 amended: with globalMax > globalMin every height is in 0 .. H-1, a   *)
(* segment containing a bucket that holds the global maximum has height    *)
(* H-1 and a segment all of whose buckets hold the global minimum has      *)
(* height 0.                                                               *)
C5_Amended ==
  (Rendered /\ maxCount(hashes) > minCount(hashes)) =>
    /\ HeightsInRange
    /\ \A i \in 1..SegmentCount :
         /\ maxCount(hashes) \in SegmentCounts(i)
              => normalizedSegments[i] = HISTOGRAM_HEIGHT - 1
         /\ SegmentCounts(i) = {minCount(hashes)} => normalizedSegments[i] = 0

C5_Witness ==
  /\ Rendered
  /\ minCount(hashes) > 0
  /\ maxCount(hashes) > minCount(hashes)
  /\ \E i \in 1..SegmentCount : normalizedSegments[i] = 0
  /\ \E i \in 1..SegmentCount :
       /\ minCount(hashes) \in SegmentCounts(i)
       /\ normalizedSegments[i] = HISTOGRAM_HEIGHT - 1

AllExpected ==
  \A c \in CountsIn(hashes, 0, BucketCount) : c * BucketCount = totalWords

(* C6: for a non-empty word list the statistic is 0 when every bucket      *)
(* holds the expected count and a strictly positive number otherwise.      *)
C6_ZeroIffUniform ==
  (Computed /\ totalWords > 0) =>
    /\ AllExpected => chiSquare = <<0, 0>>
    /\ ~AllExpected =>
         IsNumber(chiSquare) /\ (chiSquare[1] > 0 \/ chiSquare[2] > 0)

C6_Witness == Computed /\ totalWords = BucketCount /\ chiSquare = <<0, 0>>

FloatLeq(a, b) == a[1] < b[1] \/ (a[1] = b[1] /\ a[2] <= b[2])

(* C7: of two reported statistics the larger one never has the larger      *)
(* p-value.                                                                *)
C7_NonIncreasing ==
  \A i, j \in DOMAIN out :
    (/\ out[i].kind = "report"
     /\ out[j].kind = "report"
     /\ FloatLeq(out[i].chiSquare, out[j].chiSquare))
      => out[j].pValue <= out[i].pValue

(* C8: two trials of one run that use the same hash function produce the   *)
(* same bucket array, statistic, p-value, report and histogram.            *)
C8_NoLeak ==
  \A i, j \in DOMAIN steps :
    (/\ steps[i].step = steps[j].step
     /\ registry[steps[i].trial].id = registry[steps[j].trial].id)
      => steps[i].data = steps[j].data

C8_Witness ==
  /\ pc = "exit"
  /\ exitCode = 0
  /\ Len(words) = 2
  /\ registry[1].id = 3
  /\ registry[2].id = 4
  /\ \E i \in DOMAIN steps : steps[i].step = "histogram" /\ steps[i].trial = 3

TrialSteps ==
  IF histogramEnabled
  THEN <<"accumulate", "chi-square", "p-value", "report", "histogram">>
  ELSE <<"accumulate", "chi-square", "p-value", "report">>

Reports == SelectSeq(out, LAMBDA o : o.kind = "report")

(* C9: the completed steps are, at any time, a prefix of: for each of the  *)
(* six hash functions in registration order, accumulate, chi-square,       *)
(* p-value, report and (where the histogram is printed) histogram; a       *)
(* successful run has completed all of them, with one report per hash      *)
(* function in that order.                                                 *)
C9_Order ==
  /\ \A i \in DOMAIN steps :
       /\ steps[i].trial = ((i - 1) \div Len(TrialSteps)) + 1
       /\ steps[i].step = TrialSteps[((i - 1) % Len(TrialSteps)) + 1]
       /\ steps[i].name = HashNames[steps[i].trial]
  /\ \A k \in DOMAIN Reports : Reports[k].name = HashNames[k]
  /\ (pc = "exit" /\ exitCode = 0)
       => Len(steps) = 6 * Len(TrialSteps) /\ Len(Reports) = 6

C9_Witness ==
  pc = "exit" /\ exitCode = 0 /\ histogramEnabled /\ Len(steps) = 30 /\ Len(out) = 12

(* C10: for the word list <<"a">> the String Length trial leaves 1 in      *)
(* bucket 1 and 0 elsewhere, and its statistic is 65535.                    *)
C10_SingleA ==
  (words = << <<97>> >> /\ trial = 1 /\ pc = "pvalue") =>
    /\ hashes = [fill |-> 0, at |-> (1 :> 1)]
    /\ chiSquare = <<65535, 0>>

(* C11: every hash function returns a value in 0..65535, so the bucket     *)
(* testHashFunction increments lies inside the 65536-entry array; the      *)
(* running value of the Additive Checksum is within 16 bits after every    *)
(* character, and the running value and the result of the Remainder hash   *)
(* are below 65413.                                                        *)
C11_InRange ==
  pc = "hash" =>
    /\ hashRun.id = 3 => hashRun.h \in 0..65535
    /\ hashRun.id = 4 => hashRun.h \in 0..(RemainderModulus - 1)
    /\ hashRun.result # NoValue =>
         /\ hashRun.result \in 0..(BucketCount - 1)
         /\ Len(hashRun.word) <= MaxHashLen =>
              hashRun.result = HashFunc(hashRun.id, hashRun.impl, hashRun.word)
         /\ hashRun.id = 4 => hashRun.result < RemainderModulus
         /\ hashes = [fill |-> 0, at |-> (hashRun.result :> 1)]
    /\ DOMAIN hashes.at \subseteq 0..(BucketCount - 1)

(* An Additive Checksum over characters 0xFF whose sum passed 65535 and    *)
(* wrapped.                                                                *)
C11_Witness ==
  /\ pc = "hash"
  /\ hashRun.id = 3
  /\ hashRun.result # NoValue
  /\ \A i \in DOMAIN hashRun.word : hashRun.word[i] = -1
  /\ 255 * Len(hashRun.word) > 65535
  /\ hashRun.result = 255 * Len(hashRun.word) - 65536

=============================================================================
